---- MODULE Spec2Model ----
(***************************************************************************)
(* Wallet key-management glue of neotracker-shared-web (AppShell.js):      *)
(* extractKeystore, getPrivateKey, prependKey and the account-conversion   *)
(* workflow (doConvertAccount / convertAccount).                           *)
(*                                                                         *)
(* JavaScript values are records tagged with their kind in field t.        *)
(* Cryptographic primitives of the libraries the code calls (scrypt,       *)
(* pbkdf2, sha3_256, AES, privateKeyToAddress) are ideal: injective        *)
(* symbolic functions of their inputs.                                     *)
(***************************************************************************)
EXTENDS Integers, Sequences, FiniteSets, TLC

\* ------------------------------------------------------------ constants
\* keystore.version === 3
KeystoreVersion == 3
\* keystore.address.length === 34
AddressLength == 34
\* while (seed.length < 32)
KeyLength == 32
\* derivedKey.slice(0, 16) / derivedKey.slice(16, 32)
CipherKeyEnd == 16
MacKeyEnd == 32

\* ------------------------------------------------------------ bounds
\* passwords tried are 1..NumPasswords
NumPasswords == 2
\* seeds handed to prependKey on its own have lengths 0..MaxSeedLen
MaxSeedLen == 34
\* private keys of generated keystores have 0..MaxLeadingZeros leading zero bytes
MaxLeadingZeros == 2
\* getPrivateKey attempts that run concurrently are 1..NumAttempts
NumAttempts == 2

Passwords == 1..NumPasswords
Attempts == 1..NumAttempts

\* ------------------------------------------------------------ JS values
Undefined == [t |-> "undefined"]
JNull == [t |-> "null"]
JArr == [t |-> "array"]
JTrue == [t |-> "boolean"]
JNum(n) == [t |-> "number", n |-> n]
\* a string that is no hex string
JStr(s) == [t |-> "string", s |-> s]
\* a hex string: the bytes (or symbolic value) it encodes, and its letter case
JHex(x) == [t |-> "string", hex |-> x, upper |-> FALSE]
JHexUpper(x) == [t |-> "string", hex |-> x, upper |-> TRUE]
JObj(f) == [t |-> "object", f |-> f]
\* the marker of an exception thrown while evaluating an expression
Thrown == [t |-> "thrown"]

\* typeof v
TypeOf(v) ==
  CASE v.t \in {"null", "array", "object"} -> "object"
    [] OTHER -> v.t

\* v.name: a TypeError on null and undefined, undefined for an absent property
Get(v, name) ==
  IF v.t \in {"thrown", "null", "undefined"} THEN Thrown
  ELSE IF v.t = "object" /\ name \in DOMAIN v.f THEN v.f[name]
  ELSE Undefined

\* Three-valued results of a boolean JS expression: "T", "F", or "X" (it threw)
And3(a, b) == IF a = "T" THEN b ELSE a
Or3(a, b) == IF a = "F" THEN b ELSE a

\* typeof v === ty
TypeIs(v, ty) == IF v = Thrown THEN "X" ELSE IF TypeOf(v) = ty THEN "T" ELSE "F"
\* v === 'lit' for a value already known to be evaluated
StrEq(v, lit) ==
  IF v = Thrown THEN "X"
  ELSE IF v.t = "string" /\ "s" \in DOMAIN v /\ v.s = lit THEN "T" ELSE "F"
NumEq(v, k) ==
  IF v = Thrown THEN "X"
  ELSE IF v.t = "number" /\ v.n = k THEN "T" ELSE "F"
\* v.length === k, for a string v
LengthEq(v, k) ==
  IF v = Thrown THEN "X"
  ELSE IF v.t = "string" /\ "len" \in DOMAIN v /\ v.len = k THEN "T" ELSE "F"

\* ------------------------------------------------------------ isValidKDFParams
\* isValidKDFParams without the comparison of kdf with the two supported names
isValidKDFParamsAnyKdf(kdf, kdfparams) ==
  And3(TypeIs(Get(kdfparams, "dklen"), "number"),
       TypeIs(Get(kdfparams, "salt"), "string"))

isValidKDFParams(kdf, kdfparams) ==
  And3(TypeIs(Get(kdfparams, "dklen"), "number"),
  And3(TypeIs(Get(kdfparams, "salt"), "string"),
       Or3(And3(StrEq(kdf, "scrypt"),
           And3(TypeIs(Get(kdfparams, "n"), "number"),
           And3(TypeIs(Get(kdfparams, "r"), "number"),
                TypeIs(Get(kdfparams, "p"), "number")))),
           And3(StrEq(kdf, "pbkdf2"),
           And3(TypeIs(Get(kdfparams, "c"), "number"),
                TypeIs(Get(kdfparams, "prf"), "string"))))))

\* ------------------------------------------------------------ extractKeystore
\* the condition of the if at the end of extractKeystore, before negation
KeystoreChecks(keystore) ==
  LET crypto == Get(keystore, "crypto") IN
  And3(TypeIs(keystore, "object"),
  And3(TypeIs(Get(keystore, "version"), "number"),
  And3(NumEq(Get(keystore, "version"), KeystoreVersion),
  And3(TypeIs(Get(keystore, "id"), "string"),
  And3(TypeIs(Get(keystore, "address"), "string"),
  And3(LengthEq(Get(keystore, "address"), AddressLength),
  And3(TypeIs(crypto, "object"),
  And3(TypeIs(Get(crypto, "ciphertext"), "string"),
  And3(TypeIs(Get(crypto, "cipherparams"), "object"),
  And3(TypeIs(Get(Get(crypto, "cipherparams"), "iv"), "string"),
  And3(TypeIs(Get(crypto, "cipher"), "string"),
  And3(TypeIs(Get(crypto, "kdf"), "string"),
  And3(TypeIs(Get(crypto, "kdfparams"), "object"),
  And3(isValidKDFParams(Get(crypto, "kdf"), Get(crypto, "kdfparams")),
       TypeIs(Get(crypto, "mac"), "string")))))))))))))))

\* JSON.parse(text): the text of a string input is represented by the document
\* it serialises (field json), or by no document when it is malformed
JSONParse(text) ==
  IF "json" \in DOMAIN text THEN [ok |-> TRUE, value |-> text.json]
  ELSE [ok |-> FALSE, value |-> Undefined]

NoResult == [kind |-> "none"]
Failure(code, stages) == [kind |-> "error", code |-> code, stages |-> stages]
\* an exception that is no CodedClientError
Uncoded(name, stages) == [kind |-> "uncoded", code |-> name, stages |-> stages]

\* extractKeystore without its typeof text check
extractKeystoreNoTypeCheck(text) ==
  LET parsed == JSONParse(text) IN
  IF ~parsed.ok
  THEN Failure("EXTRACT_KEYSTORE_INVALID_JSON", <<"typecheck", "parse">>)
  ELSE LET ok == KeystoreChecks(parsed.value)
           stages == <<"typecheck", "parse", "validate">> IN
    CASE ok = "X" -> Uncoded("TypeError", stages)
      [] ok = "F" -> Failure("EXTRACT_KEYSTORE_INVALID_FORMAT", stages)
      [] OTHER -> [kind |-> "keystore", value |-> parsed.value, stages |-> stages]

\* extractKeystore({ text }): the keystore returned or the error thrown, with
\* the steps performed
extractKeystore(text) ==
  IF TypeOf(text) # "string"
  THEN Failure("EXTRACT_KEYSTORE_INVALID_FILE", <<"typecheck">>)
  ELSE LET parsed == JSONParse(text) IN
    IF ~parsed.ok
    THEN Failure("EXTRACT_KEYSTORE_INVALID_JSON", <<"typecheck", "parse">>)
    ELSE LET ok == KeystoreChecks(parsed.value)
             stages == <<"typecheck", "parse", "validate">> IN
      CASE ok = "X" -> Uncoded("TypeError", stages)
        [] ok = "F" -> Failure("EXTRACT_KEYSTORE_INVALID_FORMAT", stages)
        [] OTHER -> [kind |-> "keystore", value |-> parsed.value, stages |-> stages]

\* ------------------------------------------------------------ buffers
\* A derived key is a window [from, to) of the output stream of a KDF run
\* src = <<kdf, salt, cost1, cost2, cost3, password>>; different runs and
\* different offsets give different bytes. An empty window has no source.
NoSrc == <<"none", <<>>, 0, 0, 0, 0>>
EmptyKey == [src |-> NoSrc, from |-> 0, to |-> 0]
KeyLen(k) == k.to - k.from
Min(a, b) == IF a < b THEN a ELSE b
\* buf.slice(start, end): both ends are clamped to the buffer's length
Slice(k, start, end) ==
  LET a == Min(k.from + start, k.to)
      b == Min(k.from + end, k.to) IN
  IF a >= b THEN EmptyKey ELSE [src |-> k.src, from |-> a, to |-> b]

\* the bytes AES produces from plaintext pt under (cipher, key, iv)
Blob(cipher, key, iv, pt) == [cipher |-> cipher, key |-> key, iv |-> iv, pt |-> pt]
\* bytes that are the output of no encryption
RawBlob(pt) == Blob("raw", EmptyKey, <<>>, pt)

\* Buffer.from(v, 'hex') throws a TypeError unless v is a string
HexThrows(v) == v.t # "string"
\* Buffer.from(v, 'hex') for a string field holding bytes / holding a
\* ciphertext: a string that is no hex decodes to nothing
HexToBytes(v) == IF "hex" \in DOMAIN v THEN v.hex ELSE <<>>
HexToBlob(v) == IF "hex" \in DOMAIN v THEN v.hex ELSE RawBlob(<<>>)

\* sha3_256(Buffer.concat([pre, ciphertext])), as its lower-case hex string
Sha3Hex(pre, ciphertext) == JHex([sha3 |-> [pre |-> pre, ct |-> ciphertext]])

\* privateKeyToAddress(privateKey): the address string of a hex private key
privateKeyToAddress(privateKey) ==
  [t |-> "string", addr |-> privateKey.hex, len |-> AddressLength]

\* ------------------------------------------------------------ KDFs
IsNumber(v) == v.t = "number"
IsPowerOfTwo(n) == \E k \in 1..20 : n = 2 ^ k
\* scrypt-js reports an error for a cost that is no power of two above 1
ScryptOk(kdfparams) ==
  /\ ~HexThrows(Get(kdfparams, "salt"))
  /\ \A name \in {"n", "r", "p", "dklen"} : IsNumber(Get(kdfparams, name))
  /\ IsPowerOfTwo(kdfparams.f.n.n)
  /\ kdfparams.f.r.n >= 1 /\ kdfparams.f.p.n >= 1
  /\ kdfparams.f.dklen.n >= 0
\* crypto.pbkdf2 throws for an iteration count below 1
Pbkdf2Ok(kdfparams) ==
  /\ ~HexThrows(Get(kdfparams, "salt"))
  /\ \A name \in {"c", "dklen"} : IsNumber(Get(kdfparams, name))
  /\ kdfparams.f.c.n >= 1
  /\ kdfparams.f.dklen.n >= 0

Stream(src, dklen) ==
  IF dklen = 0 THEN EmptyKey ELSE [src |-> src, from |-> 0, to |-> dklen]
\* the key scrypt(password, salt, n, r, p, dklen) resolves with
ScryptKey(password, kdfparams) ==
  Stream(<<"scrypt", HexToBytes(kdfparams.f.salt), kdfparams.f.n.n,
           kdfparams.f.r.n, kdfparams.f.p.n, password>>, kdfparams.f.dklen.n)
\* the key crypto.pbkdf2(password, salt, c, dklen, 'sha256') resolves with
Pbkdf2Key(password, kdfparams) ==
  Stream(<<"pbkdf2", HexToBytes(kdfparams.f.salt), kdfparams.f.c.n, 0, 0,
           password>>, kdfparams.f.dklen.n)

\* ------------------------------------------------------------ decipher
SupportedCiphers == {"aes-128-ctr", "aes-128-cbc"}
AesKeyLength == 16
AesIvLength == 16
\* what decryption with the wrong key or iv yields, for a plaintext of n bytes
Garbage(n) == [i \in 1..n |-> 99]
DecipherThrew == [ok |-> FALSE, pt |-> <<>>]
Deciphered(pt) == [ok |-> TRUE, pt |-> pt]
\* crypto.createDecipheriv(cipher, key, iv) followed by decipherBuffer: the set
\* of possible outcomes. createDecipheriv throws for an unknown cipher name and
\* for a key or iv of the wrong length. CBC checks the padding of what it
\* decrypted, so a wrong key may throw or may pass with garbage; CTR never
\* throws.
Decipher(cipher, key, iv, data) ==
  IF "s" \notin DOMAIN cipher THEN {DecipherThrew}
  ELSE IF cipher.s \notin SupportedCiphers THEN {DecipherThrew}
  ELSE IF KeyLen(key) # AesKeyLength \/ Len(iv) # AesIvLength THEN {DecipherThrew}
  ELSE IF data.cipher = cipher.s /\ data.key = key /\ data.iv = iv
  THEN {Deciphered(data.pt)}
  ELSE IF cipher.s = "aes-128-cbc"
  THEN {DecipherThrew, Deciphered(Garbage(Len(data.pt)))}
  ELSE {Deciphered(Garbage(Len(data.pt)))}

\* ------------------------------------------------------------ prependKey
\* Buffer.concat([nullBuff, seed])
PrependNullMut(seed) == seed \o <<0>>
PrependNull(seed) == <<0>> \o seed

RECURSIVE prependKeyLoop(_, _)
\* the while loop of prependKey, counting its iterations
prependKeyLoop(seed, iters) ==
  IF Len(seed) < KeyLength
  THEN prependKeyLoop(PrependNull(seed), iters + 1)
  ELSE [seed |-> seed, iters |-> iters]

prependKey(seedIn) == prependKeyLoop(seedIn, 0).seed

\* ------------------------------------------------------------ getPrivateKey
\* getPrivateKeyStart without the check of kdfparams.prf
getPrivateKeyStartAnyPrf(keystore, password) ==
  LET crypto == keystore.f.crypto.f
      kdfparams == crypto.kdfparams IN
  IF StrEq(crypto.kdf, "scrypt") = "T"
  THEN [kind |-> "await", ok |-> ScryptOk(kdfparams),
        key |-> IF ScryptOk(kdfparams) THEN ScryptKey(password, kdfparams)
                ELSE EmptyKey]
  ELSE IF StrEq(crypto.kdf, "pbkdf2") = "T"
  THEN [kind |-> "await", ok |-> Pbkdf2Ok(kdfparams),
        key |-> IF Pbkdf2Ok(kdfparams) THEN Pbkdf2Key(password, kdfparams)
                ELSE EmptyKey]
  ELSE Failure("DECRYPT_KEYSTORE_UNSUPPORTED_ALGO", <<>>)

\* getPrivateKey up to its await: the error it throws at once, or the KDF run
\* it awaits together with what that run settles with
getPrivateKeyStart(keystore, password) ==
  LET crypto == keystore.f.crypto.f
      kdfparams == crypto.kdfparams IN
  IF StrEq(crypto.kdf, "scrypt") = "T"
  THEN [kind |-> "await", ok |-> ScryptOk(kdfparams),
        key |-> IF ScryptOk(kdfparams) THEN ScryptKey(password, kdfparams)
                ELSE EmptyKey]
  ELSE IF StrEq(crypto.kdf, "pbkdf2") = "T"
  THEN IF StrEq(Get(kdfparams, "prf"), "hmac-sha256") # "T"
       THEN Failure("DECRYPT_KEYSTORE_UNSUPPORTED_PBKDF2_PARAMETERS", <<>>)
       ELSE [kind |-> "await", ok |-> Pbkdf2Ok(kdfparams),
             key |-> IF Pbkdf2Ok(kdfparams) THEN Pbkdf2Key(password, kdfparams)
                     ELSE EmptyKey]
  ELSE Failure("DECRYPT_KEYSTORE_UNSUPPORTED_ALGO", <<>>)

\* VerifyAddress without the comparison
VerifyAddressSkipped(keystore, seed, stages) ==
  [kind |-> "key", key |-> JHex(seed), stages |-> stages]

\* the address comparison and the return
VerifyAddress(keystore, seed, stages) ==
  LET privateKey == JHex(seed)
      address == privateKeyToAddress(privateKey) IN
  IF address # keystore.f.address
  THEN Failure("DECRYPT_KEYSTORE_WRONG_ADDRESS", stages)
  ELSE [kind |-> "key", key |-> privateKey, stages |-> stages]

\* the try block around createDecipheriv, decipherBuffer and prependKey
DecipherSeed(keystore, derivedKey, ciphertext) ==
  LET crypto == keystore.f.crypto.f
      iv == Get(crypto.cipherparams, "iv") IN
  IF HexThrows(iv) THEN {DecipherThrew}
  ELSE { IF out.ok THEN Deciphered(prependKey(out.pt)) ELSE out :
           out \in Decipher(crypto.cipher, Slice(derivedKey, 0, CipherKeyEnd),
                            HexToBytes(iv), ciphertext) }

\* VerifyMac over the cipher-key half of the derived key
VerifyMacWrongHalf(keystore, derivedKey, ciphertext) ==
  Sha3Hex(Slice(derivedKey, 0, CipherKeyEnd), ciphertext)
    = keystore.f.crypto.f.mac

\* the MAC comparison
VerifyMac(keystore, derivedKey, ciphertext) ==
  Sha3Hex(Slice(derivedKey, CipherKeyEnd, MacKeyEnd), ciphertext)
    = keystore.f.crypto.f.mac

\* getPrivateKeyResume deciphering before it compares the MAC
getPrivateKeyResumeDecipherFirst(keystore, settled) ==
  IF ~settled.ok
  THEN {Failure("DECRYPT_KEYSTORE_DERIVED_KEY_ERROR", <<"kdf">>)}
  ELSE IF HexThrows(keystore.f.crypto.f.ciphertext)
  THEN {Failure("DECRYPT_KEYSTORE_UNKNOWN_CRYPTO_ERROR", <<"kdf", "mac">>)}
  ELSE LET ciphertext == HexToBlob(keystore.f.crypto.f.ciphertext) IN
    { IF ~out.ok
      THEN Failure("DECRYPT_KEYSTORE_DECIPHER_ERROR", <<"kdf", "mac", "decipher">>)
      ELSE IF ~VerifyMac(keystore, settled.key, ciphertext)
      THEN Failure("DECRYPT_KEYSTORE_WRONG_PASSPHRASE", <<"kdf", "mac">>)
      ELSE VerifyAddress(keystore, out.pt, <<"kdf", "mac", "decipher", "address">>) :
        out \in DecipherSeed(keystore, settled.key, ciphertext) }

\* getPrivateKey from the point where the awaited KDF run settles: the set of
\* possible outcomes, each with the steps performed
getPrivateKeyResume(keystore, settled) ==
  IF ~settled.ok
  THEN {Failure("DECRYPT_KEYSTORE_DERIVED_KEY_ERROR", <<"kdf">>)}
  ELSE IF HexThrows(keystore.f.crypto.f.ciphertext)
  THEN {Failure("DECRYPT_KEYSTORE_UNKNOWN_CRYPTO_ERROR", <<"kdf", "mac">>)}
  ELSE LET ciphertext == HexToBlob(keystore.f.crypto.f.ciphertext) IN
    IF ~VerifyMac(keystore, settled.key, ciphertext)
    THEN {Failure("DECRYPT_KEYSTORE_WRONG_PASSPHRASE", <<"kdf", "mac">>)}
    ELSE { IF out.ok
           THEN VerifyAddress(keystore, out.pt,
                              <<"kdf", "mac", "decipher", "address">>)
           ELSE Failure("DECRYPT_KEYSTORE_DECIPHER_ERROR",
                        <<"kdf", "mac", "decipher">>) :
             out \in DecipherSeed(keystore, settled.key, ciphertext) }

\* what a caller typed by Flow as KeystoreDeprecated may pass to getPrivateKey
\* without going through extractKeystore: every field present with its type
FlowTyped(keystore) ==
  LET crypto == Get(keystore, "crypto")
      IsObject(v) == v.t = "object"
      IsString(v) == v.t = "string" IN
  /\ IsObject(keystore)
  /\ IsNumber(Get(keystore, "version"))
  /\ IsString(Get(keystore, "id"))
  /\ IsString(Get(keystore, "address"))
  /\ IsObject(crypto)
  /\ IsString(Get(crypto, "ciphertext"))
  /\ IsObject(Get(crypto, "cipherparams"))
  /\ IsString(Get(Get(crypto, "cipherparams"), "iv"))
  /\ IsString(Get(crypto, "cipher"))
  /\ IsString(Get(crypto, "kdf"))
  /\ IsObject(Get(crypto, "kdfparams"))
  /\ IsNumber(Get(Get(crypto, "kdfparams"), "dklen"))
  /\ IsString(Get(Get(crypto, "kdfparams"), "salt"))
  /\ IsString(Get(crypto, "mac"))

\* ------------------------------------------------------------ inputs
\* Keystore documents: those an encryptor produces for a private key and a
\* password, laid out as getPrivateKey reads them, and the same documents with
\* one field removed or replaced.
\* a 32-byte private key with z leading zero bytes
PrivateKey(z) == [i \in 1..KeyLength |-> IF i <= z THEN 0 ELSE 7]
RECURSIVE StripZeros(_)
\* the key without its leading zero bytes, as legacy encryptors stored it
StripZeros(seed) ==
  IF seed # <<>> /\ Head(seed) = 0 THEN StripZeros(Tail(seed)) ELSE seed

Salt == <<1, 2>>
OtherSalt == <<3, 4>>
Iv == [i \in 1..AesIvLength |-> 5]
OtherIv == [i \in 1..AesIvLength |-> 6]
ShortIv == [i \in 1..8 |-> 5]

KdfNames == {"scrypt", "pbkdf2"}
CipherNames == {"aes-128-ctr", "aes-128-cbc", "rot13"}
DkLens == {0, 8, 16, 24, 32, 64}

KdfParams(kdf, dklen, costOk) ==
  JObj([dklen |-> JNum(dklen),
        salt |-> JHex(Salt),
        n |-> IF kdf = "scrypt" THEN JNum(IF costOk THEN 4 ELSE 3) ELSE Undefined,
        r |-> IF kdf = "scrypt" THEN JNum(1) ELSE Undefined,
        p |-> IF kdf = "scrypt" THEN JNum(1) ELSE Undefined,
        c |-> IF kdf = "pbkdf2" THEN JNum(IF costOk THEN 2 ELSE 0) ELSE Undefined,
        prf |-> IF kdf = "pbkdf2" THEN JStr("hmac-sha256") ELSE Undefined])

\* the key the KDF named in the document derives from a password, whether or
\* not the library accepts the cost parameters
KdfStream(kdf, password, kdfparams) ==
  IF kdf = "scrypt" THEN ScryptKey(password, kdfparams)
  ELSE Pbkdf2Key(password, kdfparams)

MakeKeystore(kdf, dklen, costOk, cipher, z, strip, encPw) ==
  LET kdfparams == KdfParams(kdf, dklen, costOk)
      derivedKey == KdfStream(kdf, encPw, kdfparams)
      seed == IF strip THEN StripZeros(PrivateKey(z)) ELSE PrivateKey(z)
      ciphertext == Blob(cipher, Slice(derivedKey, 0, CipherKeyEnd), Iv, seed) IN
  JObj([version |-> JNum(KeystoreVersion),
        id |-> JStr("id"),
        address |-> privateKeyToAddress(JHex(PrivateKey(z))),
        crypto |-> JObj([
          ciphertext |-> JHex(ciphertext),
          cipherparams |-> JObj([iv |-> JHex(Iv)]),
          cipher |-> JStr(cipher),
          kdf |-> JStr(kdf),
          kdfparams |-> kdfparams,
          mac |-> Sha3Hex(Slice(derivedKey, CipherKeyEnd, MacKeyEnd), ciphertext)])])

BaseKeystore(kdf, encPw) ==
  MakeKeystore(kdf, MacKeyEnd, TRUE, "aes-128-ctr", 1, TRUE, encPw)

RECURSIVE SetPath(_, _, _)
SetPath(v, path, val) ==
  IF path = <<>> THEN val
  ELSE [v EXCEPT !.f = [v.f EXCEPT ![Head(path)] =
                          SetPath(v.f[Head(path)], Tail(path), val)]]

FieldPaths ==
  [top |-> <<>>, version |-> <<"version">>, id |-> <<"id">>,
   address |-> <<"address">>, crypto |-> <<"crypto">>,
   ciphertext |-> <<"crypto", "ciphertext">>,
   cipherparams |-> <<"crypto", "cipherparams">>,
   iv |-> <<"crypto", "cipherparams", "iv">>,
   cipher |-> <<"crypto", "cipher">>, kdf |-> <<"crypto", "kdf">>,
   kdfparams |-> <<"crypto", "kdfparams">>,
   dklen |-> <<"crypto", "kdfparams", "dklen">>,
   salt |-> <<"crypto", "kdfparams", "salt">>,
   n |-> <<"crypto", "kdfparams", "n">>, r |-> <<"crypto", "kdfparams", "r">>,
   p |-> <<"crypto", "kdfparams", "p">>, c |-> <<"crypto", "kdfparams", "c">>,
   prf |-> <<"crypto", "kdfparams", "prf">>, mac |-> <<"crypto", "mac">>]

Replacements == {"missing", "null", "number", "string", "array"}
Replacement(kind) ==
  CASE kind = "missing" -> Undefined
    [] kind = "null" -> JNull
    [] kind = "number" -> JNum(1)
    [] kind = "string" -> JStr("zz")
    [] kind = "array" -> JArr

Tampers ==
  {"version4", "addressShort", "addressOther", "macUpper", "macOther",
   "saltOther", "ivShort", "ivOther", "ciphertextOther"}
Tamper(doc, kind) ==
  CASE kind = "version4" -> SetPath(doc, <<"version">>, JNum(4))
    [] kind = "addressShort" ->
         SetPath(doc, <<"address">>, [doc.f.address EXCEPT !.len = 33])
    [] kind = "addressOther" ->
         SetPath(doc, <<"address">>, privateKeyToAddress(JHex(PrivateKey(0))))
    [] kind = "macUpper" ->
         SetPath(doc, <<"crypto", "mac">>, JHexUpper(doc.f.crypto.f.mac.hex))
    [] kind = "macOther" ->
         SetPath(doc, <<"crypto", "mac">>, Sha3Hex(EmptyKey, RawBlob(<<1>>)))
    [] kind = "saltOther" ->
         SetPath(doc, <<"crypto", "kdfparams", "salt">>, JHex(OtherSalt))
    [] kind = "ivShort" ->
         SetPath(doc, <<"crypto", "cipherparams", "iv">>, JHex(ShortIv))
    [] kind = "ivOther" ->
         SetPath(doc, <<"crypto", "cipherparams", "iv">>, JHex(OtherIv))
    [] kind = "ciphertextOther" ->
         SetPath(doc, <<"crypto", "ciphertext">>, JHex(RawBlob(<<1>>)))

\* a string input: the text of a JSON document, or text that is no JSON
TextOf(doc) == [t |-> "string", json |-> doc]
Malformed(chars) == [t |-> "string", bad |-> chars]
MalformedTexts == {Malformed("{"), Malformed(""), Malformed("undefined")}

\* seeds for prependKey on its own: all-zero, all-0xff and distinct bytes
SeedPatterns == {"zeros", "ones", "ramp"}
TestSeed(len, pattern) ==
  [i \in 1..len |-> CASE pattern = "zeros" -> 0
                      [] pattern = "ones" -> 255
                      [] OTHER -> i]

\* stored wallets handed to getPrivateKey as parsed documents
WalletKinds ==
  {"base", "cbc", "rot13", "shortKey", "badCost", "unknownKdf", "badPrf",
   "addressOther"}
StoredWallet(kind, kdf, encPw) ==
  CASE kind = "base" -> BaseKeystore(kdf, encPw)
    [] kind = "cbc" -> MakeKeystore(kdf, MacKeyEnd, TRUE, "aes-128-cbc", 1, TRUE, encPw)
    [] kind = "rot13" -> MakeKeystore(kdf, MacKeyEnd, TRUE, "rot13", 1, TRUE, encPw)
    [] kind = "shortKey" ->
         MakeKeystore(kdf, CipherKeyEnd, TRUE, "aes-128-cbc", 1, TRUE, encPw)
    [] kind = "badCost" -> MakeKeystore(kdf, MacKeyEnd, FALSE, "aes-128-ctr", 1, TRUE, encPw)
    [] kind = "unknownKdf" ->
         SetPath(BaseKeystore(kdf, encPw), <<"crypto", "kdf">>, JStr("zz"))
    [] kind = "badPrf" ->
         SetPath(BaseKeystore(kdf, encPw), <<"crypto", "kdfparams", "prf">>, JStr("zz"))
    [] kind = "addressOther" -> Tamper(BaseKeystore(kdf, encPw), "addressOther")

\* ------------------------------------------------------------ account conversion
\* the errors the keystores and the client may throw, by the call that throws;
\* client tells whether the error is a ClientError
NoError == [site |-> "none", client |-> FALSE]
ErrorsAt(site) == {[site |-> site, client |-> b] : b \in BOOLEAN}
Pending == [kind |-> "pending", error |-> NoError]
Resolved == [kind |-> "resolved", error |-> NoError]
Rejected(e) == [kind |-> "rejected", error |-> e]

\* convertAccount returns the promise of doConvertAccount without awaiting it:
\* its own promise settles as that promise does, and its catch clause sees
\* only what doConvertAccount throws before returning a promise, which an async
\* function never does
convertAccountReturn(settled) == settled

\* the catch clause of convertAccount applied to an error: a ClientError is
\* rethrown, any other error is wrapped in a CodedClientError
convertAccountCatch(error) ==
  IF error.client THEN error
  ELSE [site |-> error.site, client |-> TRUE, code |-> "CREATE_NEP2_ERROR",
        original |-> error]

\* ------------------------------------------------------------ claimAllGAS
\* the errors the clients may throw, by the call that throws, with the code
\* the catch clause of claimAllGAS reads
GasErrorCodes == {"NOTHING_TO_CLAIM", "OTHER"}
NoGasError == [site |-> "none", code |-> "none"]
GasErrorsAt(site) == {[site |-> site, code |-> c] : c \in GasErrorCodes}

\* account.balances[NEO_ASSET_HASH_0X] as readClient.getAccount returns it
Balances == {Undefined, JNum(0), JNum(3)}
\* account.balances[NEO_ASSET_HASH_0X] || numbers.ZERO
NeoBalance(balance) == IF balance = Undefined THEN 0 ELSE balance.n

\* ------------------------------------------------------------ state
VARIABLES
  scenario,   \* which operation this run exercises
  text,       \* the input of extractKeystore
  origin,     \* the password the document was encrypted with; whether intact
  exResult,   \* what extractKeystore returned or threw
  keystore,   \* the keystore handed to getPrivateKey
  password,   \* the password of the current getPrivateKey attempt
  gpPc,       \* getPrivateKey: "idle", "kdf" (awaiting the KDF) or "done"
  pending,    \* the KDF run awaited and what it settles with
  gpResult,   \* what getPrivateKey returned or threw
  seedIn,     \* prependKey's argument
  prResult,   \* prependKey's result and iteration count
  cvPc,       \* doConvertAccount: the call it awaits
  memHas,     \* the memory keystore holds the account
  lsHas,      \* the localStorage keystore holds the account
  calls,      \* the keystore and client calls made, in order
  primary,    \* the error caught by the outer catch of doConvertAccount
  swallowed,  \* the errors caught and ignored
  cvResult,   \* how the promise convertAccount returned has settled
  ccPassword, \* concurrent getPrivateKey attempts: the password of each
  ccPc,       \* where each attempt stands: "idle", "kdf" or "done"
  ccPending,  \* the KDF run each attempt awaits
  ccResult,   \* what each attempt returned or threw
  ulPc,       \* unlockWalletDeprecated: "idle", "kdf", "add" or "done"
  ulAdded,    \* the localStorage keystore holds the wallet's account
  ulWallet,   \* the deprecated wallet is still stored
  ulCalls,    \* the calls unlockWalletDeprecated made, in order
  ulResult,   \* how the promise of unlockWalletDeprecated has settled
  gasPc,      \* claimAllGAS: the call it awaits
  onProgress, \* whether the caller passed an onProgress callback
  events,     \* the types of the progress events onProgress received
  caught,     \* the error caught by the catch clause of claimAllGAS
  gasResult   \* how the promise of claimAllGAS has settled

ksVars == <<text, origin, exResult, keystore, password, gpPc, pending, gpResult>>
prVars == <<seedIn, prResult>>
cvVars == <<cvPc, memHas, lsHas, calls, primary, swallowed, cvResult>>
ccVars == <<ccPassword, ccPc, ccPending, ccResult>>
ulVars == <<ulPc, ulAdded, ulWallet, ulCalls, ulResult>>
gasVars == <<gasPc, onProgress, events, caught, gasResult>>
vars == <<scenario, ksVars, prVars, cvVars, ccVars, ulVars, gasVars>>

NoOrigin == [encPw |-> 0, intact |-> FALSE]
NoPrepend == [seed |-> <<>>, iters |-> -1]

KsIdle ==
  /\ text = Undefined /\ origin = NoOrigin /\ exResult = NoResult
  /\ keystore = Undefined /\ password = 0 /\ gpPc = "idle"
  /\ pending = NoResult /\ gpResult = NoResult
PrIdle == seedIn = <<>> /\ prResult = NoPrepend
CvIdle ==
  /\ cvPc = "idle" /\ memHas = TRUE /\ lsHas = FALSE /\ calls = <<>>
  /\ primary = NoError /\ swallowed = {} /\ cvResult = Pending

CcIdle ==
  /\ ccPassword = [a \in Attempts |-> 0] /\ ccPc = [a \in Attempts |-> "idle"]
  /\ ccPending = [a \in Attempts |-> NoResult]
  /\ ccResult = [a \in Attempts |-> NoResult]
UlIdle ==
  /\ ulPc = "idle" /\ ulAdded = FALSE /\ ulWallet = TRUE /\ ulCalls = <<>>
  /\ ulResult = Pending
GasIdle ==
  /\ gasPc = "idle" /\ onProgress = FALSE /\ events = <<>>
  /\ caught = NoGasError /\ gasResult = Pending

\* the inputs of extractKeystore
InitText ==
  \/ /\ text \in {JNum(1), JNull, Undefined, JTrue, JArr,
                  BaseKeystore("scrypt", 1)} \cup MalformedTexts
     /\ origin = NoOrigin
  \/ \E kdf \in KdfNames, dklen \in DkLens, costOk \in BOOLEAN,
        cipher \in CipherNames, z \in 0..MaxLeadingZeros, strip \in BOOLEAN,
        encPw \in Passwords :
       /\ text = TextOf(MakeKeystore(kdf, dklen, costOk, cipher, z, strip, encPw))
       /\ origin = [encPw |-> encPw, intact |-> TRUE]
  \/ \E kdf \in KdfNames, encPw \in Passwords, field \in DOMAIN FieldPaths,
        kind \in Replacements :
       /\ ~(field = "top" /\ kind = "missing")
       /\ text = TextOf(SetPath(BaseKeystore(kdf, encPw), FieldPaths[field],
                                Replacement(kind)))
       /\ origin = [encPw |-> encPw, intact |-> FALSE]
  \/ \E kdf \in KdfNames, encPw \in Passwords, kind \in Tampers :
       /\ text = TextOf(Tamper(BaseKeystore(kdf, encPw), kind))
       /\ origin = [encPw |-> encPw, intact |-> FALSE]

\* a stored wallet, held as a parsed KeystoreDeprecated
InitWallet ==
  /\ \E kind \in WalletKinds, kdf \in KdfNames, encPw \in Passwords :
       /\ FlowTyped(StoredWallet(kind, kdf, encPw))
       /\ keystore = StoredWallet(kind, kdf, encPw)
  /\ text = Undefined /\ origin = NoOrigin /\ exResult = NoResult
  /\ password = 0 /\ gpPc = "idle" /\ pending = NoResult /\ gpResult = NoResult

Init ==
  \/ /\ scenario = "keystore"
     /\ InitText
     /\ exResult = NoResult /\ keystore = Undefined /\ password = 0
     /\ gpPc = "idle" /\ pending = NoResult /\ gpResult = NoResult
     /\ PrIdle /\ CvIdle /\ CcIdle /\ UlIdle /\ GasIdle
  \/ /\ scenario = "prependKey"
     /\ \E len \in 0..MaxSeedLen, pattern \in SeedPatterns :
          seedIn = TestSeed(len, pattern)
     /\ prResult = NoPrepend
     /\ KsIdle /\ CvIdle /\ CcIdle /\ UlIdle /\ GasIdle
  \/ /\ scenario = "convertAccount"
     /\ KsIdle /\ PrIdle /\ CvIdle /\ CcIdle /\ UlIdle /\ GasIdle
  \/ /\ scenario \in {"concurrent", "unlockWallet"}
     /\ InitWallet
     /\ PrIdle /\ CvIdle /\ CcIdle /\ UlIdle /\ GasIdle
  \/ /\ scenario = "claimAllGAS"
     /\ onProgress \in BOOLEAN
     /\ gasPc = "idle" /\ events = <<>> /\ caught = NoGasError
     /\ gasResult = Pending
     /\ KsIdle /\ PrIdle /\ CvIdle /\ CcIdle /\ UlIdle

\* ------------------------------------------------------------ actions
\* extractKeystore({ text }); the caller keeps the keystore it returns
ExtractKeystore ==
  /\ scenario = "keystore" /\ exResult = NoResult /\ keystore = Undefined
  /\ exResult' = extractKeystore(text)
  /\ keystore' = IF exResult'.kind = "keystore" THEN exResult'.value ELSE Undefined
  /\ UNCHANGED <<scenario, text, origin, password, gpPc, pending, gpResult,
                 prVars, cvVars>>
  /\ UNCHANGED <<ccVars, ulVars, gasVars>>

\* a caller that holds a parsed KeystoreDeprecated (a stored wallet) and did
\* not run extractKeystore on it
StoredKeystore ==
  /\ scenario = "keystore" /\ exResult = NoResult /\ keystore = Undefined
  /\ "json" \in DOMAIN text
  /\ FlowTyped(text.json)
  /\ keystore' = text.json
  /\ UNCHANGED <<scenario, text, origin, exResult, password, gpPc, pending,
                 gpResult, prVars, cvVars>>
  /\ UNCHANGED <<ccVars, ulVars, gasVars>>

\* getPrivateKey({ keystore, password }) up to its await; a finished attempt
\* may be followed by another one
GetPrivateKeyCall ==
  /\ scenario = "keystore" /\ keystore # Undefined
  /\ gpPc \in {"idle", "done"}
  /\ \E pw \in Passwords :
       LET started == getPrivateKeyStart(keystore, pw) IN
       /\ password' = pw
       /\ IF started.kind = "await"
          THEN gpPc' = "kdf" /\ pending' = started /\ gpResult' = NoResult
          ELSE gpPc' = "done" /\ pending' = NoResult /\ gpResult' = started
  /\ UNCHANGED <<scenario, text, origin, exResult, keystore, prVars, cvVars>>
  /\ UNCHANGED <<ccVars, ulVars, gasVars>>

\* the awaited KDF run settles and getPrivateKey runs to its end
KdfSettles ==
  /\ scenario = "keystore" /\ gpPc = "kdf"
  /\ \E result \in getPrivateKeyResume(keystore, pending) : gpResult' = result
  /\ gpPc' = "done"
  /\ UNCHANGED <<scenario, text, origin, exResult, keystore, password, pending,
                 prVars, cvVars>>
  /\ UNCHANGED <<ccVars, ulVars, gasVars>>

\* prependKey(seedIn)
PrependKeyCall ==
  /\ scenario = "prependKey" /\ prResult = NoPrepend
  /\ prResult' = prependKeyLoop(seedIn, 0)
  /\ UNCHANGED <<scenario, ksVars, seedIn, cvVars>>
  /\ UNCHANGED <<ccVars, ulVars, gasVars>>

\* convertAccount(input): doConvertAccount runs to its first await
ConvertAccountCall ==
  /\ scenario = "convertAccount" /\ cvPc = "idle"
  /\ cvPc' = "delete"
  /\ calls' = Append(calls, "memory.deleteAccount")
  /\ UNCHANGED <<scenario, ksVars, prVars, memHas, lsHas, primary, swallowed,
                 cvResult>>
  /\ UNCHANGED <<ccVars, ulVars, gasVars>>

\* memory.keystore.deleteAccount settles
DeleteAccountSettles ==
  /\ scenario = "convertAccount" /\ cvPc = "delete"
  /\ \/ /\ memHas' = FALSE
        /\ cvPc' = "add"
        /\ calls' = Append(calls, "localStorage.addAccount")
        /\ UNCHANGED cvResult
     \/ \E e \in ErrorsAt("memory.deleteAccount") :
        /\ cvResult' = convertAccountReturn(Rejected(e))
        /\ cvPc' = "done"
        /\ UNCHANGED <<memHas, calls>>
  /\ UNCHANGED <<scenario, ksVars, prVars, lsHas, primary, swallowed>>
  /\ UNCHANGED <<ccVars, ulVars, gasVars>>

\* localStorage.keystore.addAccount settles
AddAccountSettles ==
  /\ scenario = "convertAccount" /\ cvPc = "add"
  /\ \/ /\ lsHas' = TRUE
        /\ cvPc' = "select"
        /\ calls' = Append(calls, "client.selectAccount")
        /\ UNCHANGED primary
     \/ \E e \in ErrorsAt("localStorage.addAccount") :
        /\ primary' = e
        /\ cvPc' = "fallbackAdd"
        /\ calls' = Append(calls, "memory.addAccount")
        /\ UNCHANGED lsHas
  /\ UNCHANGED <<scenario, ksVars, prVars, memHas, swallowed, cvResult>>
  /\ UNCHANGED <<ccVars, ulVars, gasVars>>

\* client.selectAccount of the try block settles
SelectAccountSettles ==
  /\ scenario = "convertAccount" /\ cvPc = "select"
  /\ \/ /\ cvResult' = convertAccountReturn(Resolved)
        /\ cvPc' = "done"
        /\ UNCHANGED <<primary, calls>>
     \/ \E e \in ErrorsAt("client.selectAccount") :
        /\ primary' = e
        /\ cvPc' = "fallbackAdd"
        /\ calls' = Append(calls, "memory.addAccount")
        /\ UNCHANGED cvResult
  /\ UNCHANGED <<scenario, ksVars, prVars, memHas, lsHas, swallowed>>
  /\ UNCHANGED <<ccVars, ulVars, gasVars>>

\* memory.keystore.addAccount of the catch block settles
FallbackAddSettles ==
  /\ scenario = "convertAccount" /\ cvPc = "fallbackAdd"
  /\ \/ /\ memHas' = TRUE
        /\ cvPc' = "fallbackSelect"
        /\ calls' = Append(calls, "fallback.selectAccount")
        /\ UNCHANGED <<swallowed, cvResult>>
     \/ \E e \in ErrorsAt("memory.addAccount") :
        /\ swallowed' = swallowed \cup {e}
        /\ cvResult' = convertAccountReturn(Rejected(primary))
        /\ cvPc' = "done"
        /\ UNCHANGED <<memHas, calls>>
  /\ UNCHANGED <<scenario, ksVars, prVars, lsHas, primary>>
  /\ UNCHANGED <<ccVars, ulVars, gasVars>>

\* FallbackSelectSettles with the inner catch rethrowing what it caught
FallbackSelectRethrows ==
  /\ scenario = "convertAccount" /\ cvPc = "fallbackSelect"
  /\ \/ cvResult' = convertAccountReturn(Rejected(primary))
     \/ \E e \in ErrorsAt("fallback.selectAccount") :
          cvResult' = convertAccountReturn(Rejected(e))
  /\ cvPc' = "done"
  /\ UNCHANGED <<scenario, ksVars, prVars, memHas, lsHas, calls, primary,
                 swallowed>>
  /\ UNCHANGED <<ccVars, ulVars, gasVars>>

\* client.selectAccount of the catch block settles; throw error
FallbackSelectSettles ==
  /\ scenario = "convertAccount" /\ cvPc = "fallbackSelect"
  /\ \/ UNCHANGED swallowed
     \/ \E e \in ErrorsAt("fallback.selectAccount") :
          swallowed' = swallowed \cup {e}
  /\ cvResult' = convertAccountReturn(Rejected(primary))
  /\ cvPc' = "done"
  /\ UNCHANGED <<scenario, ksVars, prVars, memHas, lsHas, calls, primary>>
  /\ UNCHANGED <<ccVars, ulVars, gasVars>>

\* one of several callers calls getPrivateKey({ keystore, password }) on the
\* shared document; the call runs to its await
ConcurrentCall(a) ==
  /\ scenario = "concurrent" /\ ccPc[a] \in {"idle", "done"}
  /\ \E pw \in Passwords :
       LET started == getPrivateKeyStart(keystore, pw) IN
       /\ ccPassword' = [ccPassword EXCEPT ![a] = pw]
       /\ IF started.kind = "await"
          THEN /\ ccPc' = [ccPc EXCEPT ![a] = "kdf"]
               /\ ccPending' = [ccPending EXCEPT ![a] = started]
               /\ ccResult' = [ccResult EXCEPT ![a] = NoResult]
          ELSE /\ ccPc' = [ccPc EXCEPT ![a] = "done"]
               /\ ccPending' = [ccPending EXCEPT ![a] = NoResult]
               /\ ccResult' = [ccResult EXCEPT ![a] = started]
  /\ UNCHANGED <<scenario, ksVars, prVars, cvVars, ulVars, gasVars>>

\* ConcurrentKdfSettles with derivedKey held in one variable of the module,
\* which every attempt assigns and reads
ConcurrentKdfSettlesSharedKey(a) ==
  /\ scenario = "concurrent" /\ ccPc[a] = "kdf"
  /\ \E b \in Attempts :
       /\ ccPc[b] = "kdf"
       /\ \E result \in getPrivateKeyResume(keystore, ccPending[b]) :
            ccResult' = [ccResult EXCEPT ![a] = result]
  /\ ccPc' = [ccPc EXCEPT ![a] = "done"]
  /\ UNCHANGED <<scenario, ksVars, prVars, cvVars, ccPassword, ccPending,
                 ulVars, gasVars>>

\* the KDF run one attempt awaits settles and that attempt runs to its end
\* on its own locals
ConcurrentKdfSettles(a) ==
  /\ scenario = "concurrent" /\ ccPc[a] = "kdf"
  /\ \E result \in getPrivateKeyResume(keystore, ccPending[a]) :
       ccResult' = [ccResult EXCEPT ![a] = result]
  /\ ccPc' = [ccPc EXCEPT ![a] = "done"]
  /\ UNCHANGED <<scenario, ksVars, prVars, cvVars, ccPassword, ccPending,
                 ulVars, gasVars>>

\* unlockWalletDeprecated({ wallet, password, deleteWallet }): getPrivateKey
\* on wallet.keystore runs to its await or throws at once
UnlockWalletCall ==
  /\ scenario = "unlockWallet" /\ ulPc = "idle"
  /\ ulCalls' = Append(ulCalls, "getPrivateKey")
  /\ \E pw \in Passwords :
       LET started == getPrivateKeyStart(keystore, pw) IN
       /\ password' = pw
       /\ IF started.kind = "await"
          THEN /\ ulPc' = "kdf" /\ pending' = started
               /\ UNCHANGED <<gpResult, ulResult>>
          ELSE /\ ulPc' = "done" /\ gpResult' = started
               /\ ulResult' = Rejected(started)
               /\ UNCHANGED pending
  /\ UNCHANGED <<scenario, text, origin, exResult, keystore, gpPc, prVars,
                 cvVars, ccVars, ulAdded, ulWallet, gasVars>>

\* getPrivateKey settles: its error rejects unlockWalletDeprecated, its key
\* goes to localStorage.keystore.addAccount
UnlockKdfSettles ==
  /\ scenario = "unlockWallet" /\ ulPc = "kdf"
  /\ \E result \in getPrivateKeyResume(keystore, pending) :
       /\ gpResult' = result
       /\ IF result.kind = "key"
          THEN /\ ulPc' = "add"
               /\ ulCalls' = Append(ulCalls, "localStorage.addAccount")
               /\ UNCHANGED ulResult
          ELSE /\ ulPc' = "done"
               /\ ulResult' = Rejected(result)
               /\ UNCHANGED ulCalls
  /\ UNCHANGED <<scenario, text, origin, exResult, keystore, password, gpPc,
                 pending, prVars, cvVars, ccVars, ulAdded, ulWallet, gasVars>>

\* UnlockAddAccountSettles with deleteWallet() in a finally clause
UnlockAddAccountSettlesFinally ==
  /\ scenario = "unlockWallet" /\ ulPc = "add"
  /\ \/ /\ ulAdded' = TRUE
        /\ ulResult' = Resolved
     \/ \E e \in ErrorsAt("localStorage.addAccount") :
        /\ ulResult' = Rejected(e)
        /\ UNCHANGED ulAdded
  /\ ulCalls' = Append(ulCalls, "deleteWallet")
  /\ ulWallet' = FALSE
  /\ ulPc' = "done"
  /\ UNCHANGED <<scenario, ksVars, prVars, cvVars, ccVars, gasVars>>

\* localStorage.keystore.addAccount settles; deleteWallet()
UnlockAddAccountSettles ==
  /\ scenario = "unlockWallet" /\ ulPc = "add"
  /\ \/ /\ ulAdded' = TRUE
        /\ ulCalls' = Append(ulCalls, "deleteWallet")
        /\ ulWallet' = FALSE
        /\ ulResult' = Resolved
     \/ \E e \in ErrorsAt("localStorage.addAccount") :
        /\ ulResult' = Rejected(e)
        /\ UNCHANGED <<ulAdded, ulCalls, ulWallet>>
  /\ ulPc' = "done"
  /\ UNCHANGED <<scenario, ksVars, prVars, cvVars, ccVars, gasVars>>

\* callOnProgress(progress): what onProgress has received after the call
callOnProgress(received, type) ==
  IF onProgress THEN Append(received, type) ELSE received

\* ClaimCatch without the test of error.code
ClaimCatchAnyCode(error, received) ==
  [result |-> Resolved, events |-> callOnProgress(received, "claim-gas-skip")]

\* the catch clause around the claim: how claimAllGAS settles and what
\* onProgress has received
ClaimCatch(error, received) ==
  IF error.code = "NOTHING_TO_CLAIM"
  THEN [result |-> Resolved, events |-> callOnProgress(received, "claim-gas-skip")]
  ELSE [result |-> Rejected(error), events |-> received]

\* claimAllGAS({ appContext, account, onProgress }) up to its first await
ClaimAllGASCall ==
  /\ scenario = "claimAllGAS" /\ gasPc = "idle"
  /\ events' = callOnProgress(events, "fetch-unspent-sending")
  /\ gasPc' = "fetch"
  /\ UNCHANGED <<scenario, ksVars, prVars, cvVars, ccVars, ulVars, onProgress,
                 caught, gasResult>>

\* Promise.all of readClient.getAccount and the app options settles
FetchSettles ==
  /\ scenario = "claimAllGAS" /\ gasPc = "fetch"
  /\ \/ \E balance \in Balances :
          IF NeoBalance(balance) > 0
          THEN /\ events' = callOnProgress(callOnProgress(events,
                               "fetch-unspent-done"), "spend-all-sending")
               /\ gasPc' = "transfer"
               /\ UNCHANGED gasResult
          ELSE /\ events' = callOnProgress(callOnProgress(callOnProgress(events,
                               "fetch-unspent-done"), "spend-all-skip"),
                               "claim-gas-sending")
               /\ gasPc' = "claim"
               /\ UNCHANGED gasResult
     \/ \E e \in GasErrorsAt("readClient.getAccount") \cup GasErrorsAt("options$") :
          /\ gasResult' = Rejected(e)
          /\ gasPc' = "done"
          /\ UNCHANGED events
  /\ UNCHANGED <<scenario, ksVars, prVars, cvVars, ccVars, ulVars, onProgress,
                 caught>>

\* client.transfer of the whole NEO balance settles
TransferSettles ==
  /\ scenario = "claimAllGAS" /\ gasPc = "transfer"
  /\ \/ /\ events' = callOnProgress(events, "spend-all-confirming")
        /\ gasPc' = "spendConfirmed"
        /\ UNCHANGED gasResult
     \/ \E e \in GasErrorsAt("client.transfer") :
          /\ gasResult' = Rejected(e)
          /\ gasPc' = "done"
          /\ UNCHANGED events
  /\ UNCHANGED <<scenario, ksVars, prVars, cvVars, ccVars, ulVars, onProgress,
                 caught>>

\* result.confirmed of the transfer settles; the try block starts
SpendConfirmedSettles ==
  /\ scenario = "claimAllGAS" /\ gasPc = "spendConfirmed"
  /\ \/ /\ events' = callOnProgress(callOnProgress(events,
                        "spend-all-confirmed"), "claim-gas-sending")
        /\ gasPc' = "claim"
        /\ UNCHANGED gasResult
     \/ \E e \in GasErrorsAt("transfer.confirmed") :
          /\ gasResult' = Rejected(e)
          /\ gasPc' = "done"
          /\ UNCHANGED events
  /\ UNCHANGED <<scenario, ksVars, prVars, cvVars, ccVars, ulVars, onProgress,
                 caught>>

\* client.claim settles
ClaimSettles ==
  /\ scenario = "claimAllGAS" /\ gasPc = "claim"
  /\ \/ /\ events' = callOnProgress(events, "claim-gas-confirming")
        /\ gasPc' = "claimConfirmed"
        /\ UNCHANGED <<caught, gasResult>>
     \/ \E e \in GasErrorsAt("client.claim") :
          /\ caught' = e
          /\ gasResult' = ClaimCatch(e, events).result
          /\ events' = ClaimCatch(e, events).events
          /\ gasPc' = "done"
  /\ UNCHANGED <<scenario, ksVars, prVars, cvVars, ccVars, ulVars, onProgress>>

\* result.confirmed of the claim settles, inside the same try block
ClaimConfirmedSettles ==
  /\ scenario = "claimAllGAS" /\ gasPc = "claimConfirmed"
  /\ \/ /\ events' = callOnProgress(events, "claim-gas-confirmed")
        /\ gasResult' = Resolved
        /\ UNCHANGED caught
     \/ \E e \in GasErrorsAt("claim.confirmed") :
          /\ caught' = e
          /\ gasResult' = ClaimCatch(e, events).result
          /\ events' = ClaimCatch(e, events).events
  /\ gasPc' = "done"
  /\ UNCHANGED <<scenario, ksVars, prVars, cvVars, ccVars, ulVars, onProgress>>

Next ==
  \/ ExtractKeystore
  \/ StoredKeystore
  \/ GetPrivateKeyCall
  \/ KdfSettles
  \/ PrependKeyCall
  \/ ConvertAccountCall
  \/ DeleteAccountSettles
  \/ AddAccountSettles
  \/ SelectAccountSettles
  \/ FallbackAddSettles
  \/ FallbackSelectSettles
  \/ \E a \in Attempts : ConcurrentCall(a)
  \/ \E a \in Attempts : ConcurrentKdfSettles(a)
  \/ UnlockWalletCall
  \/ UnlockKdfSettles
  \/ UnlockAddAccountSettles
  \/ ClaimAllGASCall
  \/ FetchSettles
  \/ TransferSettles
  \/ SpendConfirmedSettles
  \/ ClaimSettles
  \/ ClaimConfirmedSettles

Spec == Init /\ [][Next]_vars

\* ------------------------------------------------------------ claims
AllStages == <<"kdf", "mac", "decipher", "address">>
Extracted == scenario = "keystore" /\ exResult # NoResult
ParsedDoc == "json" \in DOMAIN text
AttemptDone == scenario = "keystore" /\ gpPc = "done"

\* The keystore schema of the data model, stated on the document alone: every
\* required field present with its type, and version 3.
HasField(v, name, type) ==
  v.t = "object" /\ name \in DOMAIN v.f /\ v.f[name].t = type
RequiredFieldsPresent(doc) ==
  /\ HasField(doc, "version", "number") /\ doc.f.version.n = KeystoreVersion
  /\ HasField(doc, "id", "string")
  /\ HasField(doc, "address", "string")
  /\ HasField(doc, "crypto", "object")
  /\ HasField(doc.f.crypto, "ciphertext", "string")
  /\ HasField(doc.f.crypto, "cipher", "string")
  /\ HasField(doc.f.crypto, "cipherparams", "object")
  /\ HasField(doc.f.crypto.f.cipherparams, "iv", "string")
  /\ HasField(doc.f.crypto, "kdf", "string")
  /\ HasField(doc.f.crypto, "kdfparams", "object")
  /\ HasField(doc.f.crypto.f.kdfparams, "dklen", "number")
  /\ HasField(doc.f.crypto.f.kdfparams, "salt", "string")
  /\ doc.f.crypto.f.kdf.s = "scrypt" =>
       \A name \in {"n", "r", "p"} :
         HasField(doc.f.crypto.f.kdfparams, name, "number")
  /\ doc.f.crypto.f.kdf.s = "pbkdf2" =>
       /\ HasField(doc.f.crypto.f.kdfparams, "c", "number")
       /\ HasField(doc.f.crypto.f.kdfparams, "prf", "string")
  /\ HasField(doc.f.crypto, "mac", "string")

KdfOf(k) == k.f.crypto.f.kdf.s
DkLenOf(k) == k.f.crypto.f.kdfparams.f.dklen.n
\* kdf is pbkdf2 and prf is not the string hmac-sha256
BadPrf(k) ==
  /\ KdfOf(k) = "pbkdf2"
  /\ Get(k.f.crypto.f.kdfparams, "prf") # JStr("hmac-sha256")

\* C1: every text that parses as JSON to a document missing a required
\* keystore field, holding a field of the wrong type or a version other than
\* 3 (a JSON null at the top level, at crypto, cipherparams or kdfparams
\* included) makes extractKeystore fail with EXTRACT_KEYSTORE_INVALID_FORMAT
\* and nothing else.
C1_MalformedIsInvalidFormat ==
  (Extracted /\ ParsedDoc /\ ~RequiredFieldsPresent(text.json)) =>
    (exResult.kind = "error" /\ exResult.code = "EXTRACT_KEYSTORE_INVALID_FORMAT")

KdfSucceeds ==
  LET started == getPrivateKeyStart(keystore, password) IN
  started.kind = "await" /\ started.ok

\* C3: for every keystore accepted by extractKeystore whose KDF computation
\* succeeds and every password other than the one it was encrypted with,
\* getPrivateKey fails with DECRYPT_KEYSTORE_WRONG_PASSPHRASE.
C3_WrongPasswordIsWrongPassphrase ==
  (AttemptDone /\ exResult.kind = "keystore" /\ KdfSucceeds
     /\ password # origin.encPw) =>
    (gpResult.kind = "error"
       /\ gpResult.code = "DECRYPT_KEYSTORE_WRONG_PASSPHRASE")

\* a keystore an encryptor produced with the attempt's password and nobody
\* changed: accepted by extractKeystore, its KDF parameters accepted by the
\* KDF, its cipher one AES can run with the 16-byte key derivedKey.slice(0, 16)
ValidWithCorrectPassword ==
  /\ exResult.kind = "keystore" /\ origin.intact /\ password = origin.encPw
  /\ KdfSucceeds
  /\ DkLenOf(keystore) >= AesKeyLength
  /\ keystore.f.crypto.f.cipher.s \in SupportedCiphers

\* C4: for every valid version-3 keystore and its correct password,
\* getPrivateKey ends, and returns a private key whose address is
\* keystore.address.
C4_CorrectPasswordReturnsKey ==
  /\ (scenario = "keystore" /\ gpPc = "kdf") => ENABLED KdfSettles
  /\ (AttemptDone /\ ValidWithCorrectPassword) =>
       /\ gpResult.kind = "key"
       /\ privateKeyToAddress(gpResult.key) = keystore.f.address
\* the case of a stored seed shorter than 32 bytes included
C4_Witness ==
  /\ AttemptDone /\ ValidWithCorrectPassword /\ gpResult.kind = "key"
  /\ Len(keystore.f.crypto.f.ciphertext.hex.pt) < KeyLength

\* C5: whenever getPrivateKey returns a private key, in that attempt the KDF
\* produced a derived key, the MAC computed from it equals
\* keystore.crypto.mac, decryption succeeded with the returned key as its
\* padded plaintext, and the address of the returned key is keystore.address.
C5_KeyOnlyIfAllChecksPass ==
  (AttemptDone /\ gpResult.kind = "key") =>
    LET started == getPrivateKeyStart(keystore, password)
        ciphertext == HexToBlob(keystore.f.crypto.f.ciphertext) IN
    /\ gpResult.stages = AllStages
    /\ KdfSucceeds
    /\ Sha3Hex(Slice(started.key, CipherKeyEnd, MacKeyEnd), ciphertext)
         = keystore.f.crypto.f.mac
    /\ \E out \in DecipherSeed(keystore, started.key, ciphertext) :
         out.ok /\ JHex(out.pt) = gpResult.key
    /\ privateKeyToAddress(gpResult.key) = keystore.f.address
C5_Witness == AttemptDone /\ gpResult.kind = "key" /\ exResult.kind = "keystore"

\* C6: extractKeystore fails with EXTRACT_KEYSTORE_INVALID_FILE for every
\* input that is no string, before any parse, and with
\* EXTRACT_KEYSTORE_INVALID_JSON for every string that is no JSON, before any
\* validation; no keystore is returned in either case.
C6_InvalidFileThenInvalidJson ==
  /\ (Extracted /\ text.t # "string") =>
       /\ exResult = Failure("EXTRACT_KEYSTORE_INVALID_FILE", <<"typecheck">>)
       /\ keystore = Undefined
  /\ (Extracted /\ text.t = "string" /\ ~ParsedDoc) =>
       /\ exResult = Failure("EXTRACT_KEYSTORE_INVALID_JSON", <<"typecheck", "parse">>)
       /\ keystore = Undefined
C6_Witness ==
  /\ Extracted /\ text.t = "object"
  /\ exResult.code = "EXTRACT_KEYSTORE_INVALID_FILE"

\* C7: getPrivateKey on a keystore whose kdf is neither scrypt nor pbkdf2 fails
\* with DECRYPT_KEYSTORE_UNSUPPORTED_ALGO without any key derivation, MAC
\* check or decryption; and no keystore returned by extractKeystore makes
\* getPrivateKey fail with that error.
C7_UnsupportedAlgoOnlyOutsideExtract ==
  /\ (scenario = "keystore" /\ keystore # Undefined
        /\ KdfOf(keystore) \notin {"scrypt", "pbkdf2"}) =>
       /\ gpPc # "kdf"
       /\ gpPc = "done" =>
            gpResult = Failure("DECRYPT_KEYSTORE_UNSUPPORTED_ALGO", <<>>)
  /\ (AttemptDone /\ exResult.kind = "keystore") =>
       ~(gpResult.kind = "error"
           /\ gpResult.code = "DECRYPT_KEYSTORE_UNSUPPORTED_ALGO")
C7_Witness ==
  /\ AttemptDone /\ exResult = NoResult
  /\ gpResult = Failure("DECRYPT_KEYSTORE_UNSUPPORTED_ALGO", <<>>)

\* C8: prependKey left-pads with zero bytes: a seed of length L < 32 comes
\* back 32 bytes long, its last L bytes the seed and its first 32 - L bytes
\* zero, after 32 - L iterations of the loop; a seed of 32 bytes or more comes
\* back unchanged after none.
C8_PrependKeyLeftPads ==
  (scenario = "prependKey" /\ prResult # NoPrepend) =>
    LET L == Len(seedIn)
        out == prResult.seed IN
    /\ out = prependKey(seedIn)
    /\ L < KeyLength =>
         /\ Len(out) = KeyLength
         /\ SubSeq(out, KeyLength - L + 1, KeyLength) = seedIn
         /\ \A i \in 1..(KeyLength - L) : out[i] = 0
         /\ prResult.iters = KeyLength - L
    /\ L >= KeyLength => (out = seedIn /\ prResult.iters = 0)
C8_Witness ==
  /\ scenario = "prependKey" /\ prResult # NoPrepend
  /\ Len(seedIn) = 5 /\ seedIn[1] = 1 /\ prResult.iters = KeyLength - 5

\* what each stage of an attempt does on the attempt's keystore and password,
\* stated on the inputs
StageKdfUnsupported ==
  \/ KdfOf(keystore) \notin {"scrypt", "pbkdf2"}
  \/ BadPrf(keystore)
StageKdfFails == ~StageKdfUnsupported /\ ~KdfSucceeds
StageMacFails ==
  Sha3Hex(Slice(getPrivateKeyStart(keystore, password).key, CipherKeyEnd, MacKeyEnd),
          HexToBlob(keystore.f.crypto.f.ciphertext)) # keystore.f.crypto.f.mac
StageDecipherOutcomes ==
  DecipherSeed(keystore, getPrivateKeyStart(keystore, password).key,
               HexToBlob(keystore.f.crypto.f.ciphertext))
StageError(code, stages) == gpResult = Failure(code, stages)

\* C9: an attempt runs derive-key, verify-MAC, decrypt, verify-address in that
\* order, each at most once; the first stage that fails ends it with that
\* stage's error and no later stage runs; every attempt ends in one outcome,
\* a key or one of these errors.
C9_LinearPipeline ==
  AttemptDone =>
    /\ gpResult.kind \in {"key", "error"}
    /\ gpResult.stages = SubSeq(AllStages, 1, Len(gpResult.stages))
    /\ IF KdfOf(keystore) \notin {"scrypt", "pbkdf2"}
       THEN StageError("DECRYPT_KEYSTORE_UNSUPPORTED_ALGO", <<>>)
       ELSE IF BadPrf(keystore)
       THEN StageError("DECRYPT_KEYSTORE_UNSUPPORTED_PBKDF2_PARAMETERS", <<>>)
       ELSE IF StageKdfFails
       THEN StageError("DECRYPT_KEYSTORE_DERIVED_KEY_ERROR", <<"kdf">>)
       ELSE IF StageMacFails
       THEN StageError("DECRYPT_KEYSTORE_WRONG_PASSPHRASE", <<"kdf", "mac">>)
       ELSE \E out \in StageDecipherOutcomes :
              IF ~out.ok
              THEN StageError("DECRYPT_KEYSTORE_DECIPHER_ERROR",
                              <<"kdf", "mac", "decipher">>)
              ELSE IF privateKeyToAddress(JHex(out.pt)) # keystore.f.address
              THEN StageError("DECRYPT_KEYSTORE_WRONG_ADDRESS", AllStages)
              ELSE gpResult = [kind |-> "key", key |-> JHex(out.pt),
                               stages |-> AllStages]
\* a MAC mismatch on a keystore whose cipher would also fail
C9_Witness ==
  /\ AttemptDone /\ StageError("DECRYPT_KEYSTORE_WRONG_PASSPHRASE", <<"kdf", "mac">>)
  /\ keystore.f.crypto.f.cipher.s \notin SupportedCiphers

FallbackSites == {"memory.addAccount", "fallback.selectAccount"}
PrimarySites == {"localStorage.addAccount", "client.selectAccount"}

\* C10: in doConvertAccount only errors of the fallback path (memory
\* addAccount, then selectAccount) are swallowed; whenever localStorage
\* addAccount or the selectAccount after it fails, that error is the one
\* convertAccount's caller gets, whether the fallback succeeds or fails.
C10_OnlyFallbackErrorsSwallowed ==
  /\ \A e \in swallowed : e.site \in FallbackSites
  /\ primary # NoError => primary.site \in PrimarySites
  /\ (cvPc = "done" /\ primary # NoError) => cvResult = Rejected(primary)
  /\ (cvPc = "done" /\ primary = NoError) =>
       /\ swallowed = {}
       /\ cvResult.kind = "rejected" => cvResult.error.site = "memory.deleteAccount"
  /\ (primary # NoError /\ cvPc # "done") => cvResult = Pending
C10_Witness ==
  /\ cvPc = "done" /\ primary.site = "client.selectAccount"
  /\ swallowed # {} /\ cvResult = Rejected(primary)

\* the outcomes of one getPrivateKey attempt that runs with no other
RunAlone(ks, pw) ==
  LET started == getPrivateKeyStart(ks, pw) IN
  IF started.kind = "await" THEN getPrivateKeyResume(ks, started) ELSE {started}

\* C11: when getPrivateKey attempts on one document interleave at their
\* awaits, each attempt that has ended holds an outcome that the same
\* keystore and password give an attempt running alone, and no step of any
\* attempt changes the document.
C11_AttemptsIndependent ==
  [][scenario = "concurrent" =>
       /\ keystore' = keystore
       /\ \A a \in Attempts :
            ccPc'[a] = "done" => ccResult'[a] \in RunAlone(keystore, ccPassword'[a])]_vars
\* two attempts with different passwords overlapped: one ended with the key
\* while the other, started before the first ended, was refused or still waits
C11_Witness ==
  /\ scenario = "concurrent"
  /\ ccPc[1] = "done" /\ ccResult[1].kind = "key"
  /\ ccPc[2] = "kdf" /\ ccPassword[2] # ccPassword[1]
\* the number of times a call occurs in a sequence of calls
CountOf(call, made) == Cardinality({i \in DOMAIN made : made[i] = call})

\* C12: unlockWalletDeprecated calls deleteWallet at most once, as its last
\* call, after getPrivateKey returned a key and localStorage addAccount
\* succeeded; when either fails deleteWallet is not called, and the
\* deprecated wallet is gone only when its account is stored.
C12_DeleteWalletOnlyAfterStored ==
  scenario = "unlockWallet" =>
    /\ CountOf("deleteWallet", ulCalls) <= 1
    /\ CountOf("deleteWallet", ulCalls) = 1 =>
         /\ ulCalls = <<"getPrivateKey", "localStorage.addAccount", "deleteWallet">>
         /\ gpResult.kind = "key" /\ ulAdded
    /\ ulResult.kind = "rejected" =>
         CountOf("deleteWallet", ulCalls) = 0 /\ ulWallet
    /\ ~ulWallet => ulAdded
C12_Witness ==
  /\ scenario = "unlockWallet" /\ ulPc = "done"
  /\ ulResult = Resolved /\ ~ulWallet /\ ulAdded
  /\ CountOf("deleteWallet", ulCalls) = 1
\* the progress events of a claimAllGAS run, in order
FetchEvents == <<"fetch-unspent-sending", "fetch-unspent-done">>
SpendEvents ==
  {<<"spend-all-sending", "spend-all-confirming", "spend-all-confirmed">>,
   <<"spend-all-skip">>}
ClaimEvents ==
  {<<"claim-gas-sending", "claim-gas-confirming", "claim-gas-confirmed">>,
   <<"claim-gas-sending", "claim-gas-skip">>}
\* the claim's confirmation is awaited inside the try block too
ClaimEventsInCode ==
  ClaimEvents \cup {<<"claim-gas-sending", "claim-gas-confirming", "claim-gas-skip">>}
IsPrefix(short, long) ==
  Len(short) <= Len(long) /\ \A i \in DOMAIN short : short[i] = long[i]
FollowsOrder(received, claimEvents) ==
  \E spend \in SpendEvents, claim \in claimEvents :
    IsPrefix(received, FetchEvents \o spend \o claim)
Received(type) == \E i \in DOMAIN events : events[i] = type
\* the events after which claimAllGAS awaits a call
AwaitingEvents ==
  {"fetch-unspent-sending", "spend-all-sending", "spend-all-confirming",
   "claim-gas-sending", "claim-gas-confirming"}
\* a failed run stopped at the await that failed and carries its error
FailureEndsRun ==
  gasResult.kind = "rejected" =>
    /\ events # <<>> => events[Len(events)] \in AwaitingEvents
    /\ gasResult.error.site # "none"
    /\ caught # NoGasError =>
         gasResult.error = caught /\ caught.code # "NOTHING_TO_CLAIM"
\* claim-gas-sending comes after the end of the spend-all transfer
ClaimAfterSpend ==
  Received("claim-gas-sending") =>
    Received("spend-all-confirmed") \/ Received("spend-all-skip")

\* C13 as stated: the events of a claimAllGAS run follow the order
\* fetch-unspent-sending, fetch-unspent-done, the spend-all events or
\* spend-all-skip, claim-gas-sending, then either claim-gas-confirming and
\* claim-gas-confirmed or claim-gas-skip; claim-gas-skip only when
\* client.claim failed with code NOTHING_TO_CLAIM; any other failure ends the
\* run with that error.
C13_FixedOrder ==
  scenario = "claimAllGAS" =>
    /\ FollowsOrder(events, ClaimEvents)
    /\ ClaimAfterSpend
    /\ Received("claim-gas-skip") =>
         caught = [site |-> "client.claim", code |-> "NOTHING_TO_CLAIM"]
    /\ FailureEndsRun
\* C13 amended: as C13, except that claim-gas-skip may also follow
\* claim-gas-confirming: it is emitted when client.claim or the wait for the
\* claim's confirmation failed with code NOTHING_TO_CLAIM.
C13_OrderWithLateSkip ==
  scenario = "claimAllGAS" =>
    /\ FollowsOrder(events, ClaimEventsInCode)
    /\ ClaimAfterSpend
    /\ Received("claim-gas-skip") =>
         /\ caught.code = "NOTHING_TO_CLAIM"
         /\ caught.site \in {"client.claim", "claim.confirmed"}
         /\ caught.site = "claim.confirmed" <=> Received("claim-gas-confirming")
         /\ gasResult = Resolved
    /\ FailureEndsRun
C13_Witness ==
  /\ scenario = "claimAllGAS" /\ gasPc = "done"
  /\ events = FetchEvents
               \o <<"spend-all-sending", "spend-all-confirming", "spend-all-confirmed">>
               \o <<"claim-gas-sending", "claim-gas-confirming", "claim-gas-skip">>
\* C14: once convertAccount has settled, the account is in exactly one of the
\* two keystores: in localStorage when the conversion succeeded, in memory
\* when it failed.
C14_ExactlyOneKeystore ==
  (scenario = "convertAccount" /\ cvPc = "done") =>
    /\ memHas # lsHas
    /\ lsHas <=> cvResult = Resolved

\* the errors the calls of doConvertAccount may throw
ConvertErrors ==
  UNION {ErrorsAt(site) : site \in PrimarySites \cup FallbackSites
                                    \cup {"memory.deleteAccount"}}

\* C15: a failure that convertAccount surfaces is what its catch clause makes
\* of an error of doConvertAccount: a ClientError unchanged, or a
\* CodedClientError CREATE_NEP2_ERROR wrapping an error that is none.
C15_FailuresWrapped ==
  cvResult.kind = "rejected" =>
    \E e \in ConvertErrors : cvResult.error = convertAccountCatch(e)
====
